---- MODULE Spec2Model ----
(***************************************************************************)
(* Model of the resume screening backend (AIResumeAgent):                  *)
(*   - the batch tracker record kept by CosmosDBService                    *)
(*     (services/cosmos_db_service.py), driven by concurrent workers;      *)
(*   - the fit score aggregation of AIScreeningService                     *)
(*     (services/ai_screening_service.py);                                 *)
(*   - the per-request resume loop of screen_resumes (main.py).            *)
(*                                                                         *)
(* Six specifications share the variables:                                 *)
(*   Spec       tracker operations split at their store reads and writes,  *)
(*              interleaved between workers;                               *)
(*   SpecRace   the same split operations for two racing workers, under   *)
(*              tighter bounds;                                            *)
(*   SpecSeq    the same tracker operations, one whole call at a time;     *)
(*   SpecScore  _calculate_fit_score applied to bounded inputs;            *)
(*   SpecBatch  one screen_resumes request, one loop iteration per step;   *)
(*   SpecStore  whole CosmosDBService calls on the jobs, screenings and    *)
(*              screening-jobs containers, with the store failures they    *)
(*              can meet.                                                  *)
(***************************************************************************)
EXTENDS Integers, Sequences, FiniteSets, TLC

VARIABLES
    blob,               \* filenames stored under the job's prefix in the resumes container
    tracker,            \* the job's item in the screening-jobs container, or NoTracker
    pc,                 \* per worker: position inside a tracker call
    local,              \* per worker: the record (or blob count) the call holds in memory
    returned,           \* filenames for which an update call has returned True
    score_in,           \* arguments and oracle reply of one _calculate_fit_score call
    score_out,          \* what that call produced
    request,            \* the body of one screen_resumes request
    idx,                \* number of loop iterations of screen_resumes done
    candidate_reports,  \* the list the loop appends to
    screenings,         \* resumes whose report save_screening_result has stored
    uploaded,           \* resumes whose bytes were put in blob storage by the request
    response,           \* outcome of the request
    job_exists,         \* the job's item is in the jobs container
    call_result         \* the last CosmosDBService call made on the stores and how it ended

tvars == <<blob, tracker, pc, local, returned>>
svars == <<score_in, score_out>>
bvars == <<request, idx, candidate_reports, screenings, uploaded, response>>
jvars == <<job_exists, call_result>>
vars  == <<blob, tracker, pc, local, returned, score_in, score_out,
           request, idx, candidate_reports, screenings, uploaded, response,
           job_exists, call_result>>

(***************************************************************************)
(* Bounds                                                                  *)
(***************************************************************************)
MaxFiles == 3
MaxRecords == 3
MaxConcurrentRecords == 2
NumWorkers == 2

Files == 1..MaxFiles

\* The name of a blob that ends in "/" (a folder entry under the job's prefix).
DirMarker == 0
BlobNames == Files \cup {DirMarker}
Workers == 1..NumWorkers
Outcomes == {"success", "failed"}

NoTracker == [exists |-> FALSE]
NoLocal == [rec |-> NoTracker, filename |-> 0]

(***************************************************************************)
(* The tracker record                                                      *)
(***************************************************************************)

\* The item initialize_or_increment_batch_total creates when none exists.
NewTracker(blob_count) ==
    [exists |-> TRUE,
     current_batch_total |-> blob_count,
     current_batch_processed |-> 0,
     current_batch_successful |-> 0,
     current_batch_failed |-> 0,
     processed_resumes |-> 0,
     successful_resumes |-> 0,
     failed_resumes |-> 0,
     status |-> "processing",
     batch_no |-> 1,
     resume_statuses |-> << >>]

\* A variant that counts an outcome in the all-time counters only.
ApplyOutcomeAllTimeOnly(rec, resume_filename, status) ==
    [rec EXCEPT
        !.processed_resumes = @ + 1,
        !.successful_resumes = IF status = "success" THEN @ + 1 ELSE @,
        !.failed_resumes = IF status = "success" THEN @ ELSE @ + 1,
        !.resume_statuses = Append(@, [filename |-> resume_filename, status |-> status])]

\* A variant that leaves a failed outcome out of the batch's failed counter.
ApplyOutcomeFailureUncounted(rec, resume_filename, status) ==
    [rec EXCEPT
        !.current_batch_processed = @ + 1,
        !.current_batch_successful = IF status = "success" THEN @ + 1 ELSE @,
        !.processed_resumes = @ + 1,
        !.successful_resumes = IF status = "success" THEN @ + 1 ELSE @,
        !.failed_resumes = IF status = "success" THEN @ ELSE @ + 1,
        !.resume_statuses = Append(@, [filename |-> resume_filename, status |-> status])]

\* The in-memory changes update_screening_job_progress_by_job_id makes to the
\* record it has read: both counter families go up by one and an entry is
\* appended; nothing looks at the entries already present.
ApplyOutcome(rec, resume_filename, status) ==
    [rec EXCEPT
        !.current_batch_processed = @ + 1,
        !.current_batch_successful = IF status = "success" THEN @ + 1 ELSE @,
        !.current_batch_failed = IF status = "success" THEN @ ELSE @ + 1,
        !.processed_resumes = @ + 1,
        !.successful_resumes = IF status = "success" THEN @ + 1 ELSE @,
        !.failed_resumes = IF status = "success" THEN @ ELSE @ + 1,
        !.resume_statuses = Append(@, [filename |-> resume_filename, status |-> status])]

\* A variant that leaves out the test for a total that was never set.
BatchCompletedOrEmpty(rec) ==
    rec.current_batch_processed >= rec.current_batch_total

\* "Previous batch completed" test of initialize_or_increment_batch_total.
BatchCompleted(rec) ==
    rec.current_batch_total > 0 /\ rec.current_batch_processed >= rec.current_batch_total

\* "More files than processed" test; it compares with the batch counter.
NewBatchDetected(rec, blob_count) ==
    blob_count > rec.current_batch_processed

\* A variant that starts the all-time counters afresh as well.
ResetBatchAndAllTime(rec, blob_count) ==
    [rec EXCEPT
        !.current_batch_total = blob_count - rec.current_batch_processed,
        !.current_batch_processed = 0,
        !.current_batch_successful = 0,
        !.current_batch_failed = 0,
        !.processed_resumes = 0,
        !.successful_resumes = 0,
        !.failed_resumes = 0,
        !.batch_no = @ + 1]

\* The reset for a new batch; batch_no stands for batch_start_time.
ResetBatch(rec, blob_count) ==
    [rec EXCEPT
        !.current_batch_total = blob_count - rec.current_batch_processed,
        !.current_batch_processed = 0,
        !.current_batch_successful = 0,
        !.current_batch_failed = 0,
        !.batch_no = @ + 1]

\* A variant that counts every blob under the prefix.
BlobCountAll == Cardinality(blob)

\* Blobs under the prefix whose name does not end in "/".
BlobCount == Cardinality({b \in blob : b # DirMarker})

RecordedFilenames(rec) ==
    IF rec.exists THEN {rec.resume_statuses[i].filename : i \in 1..Len(rec.resume_statuses)}
    ELSE {}

\* A variant that rounds the quotient to the nearest integer.
RoundPercent(processed, total) == (2 * processed * 100 + total) \div (2 * total)

\* int((processed / total) * 100). The float evaluation equals the integer
\* quotient for every total below 50 (the first difference is 29 of 50, which
\* the float computes as 57); the totals reached here are far below that.
IntPercent(processed, total) == (processed * 100) \div total

Max(a, b) == IF a >= b THEN a ELSE b
Min(a, b) == IF a <= b THEN a ELSE b

\* A variant that reports the raw quotient, without the cap at 100 and without
\* forcing 100 once nothing remains.
SnapshotUncapped(rec) ==
    IF rec.exists /\ rec.current_batch_total > 0
    THEN [total_uploaded_in_queue |-> rec.current_batch_total,
          processed |-> rec.current_batch_processed,
          successful |-> rec.current_batch_successful,
          failed |-> rec.current_batch_failed,
          remaining |-> Max(0, rec.current_batch_total - rec.current_batch_processed),
          status |-> IF rec.current_batch_total - rec.current_batch_processed <= 0
                     THEN "completed"
                     ELSE IF rec.current_batch_processed > 0 THEN "processing"
                     ELSE "pending",
          progress_percentage |->
              IntPercent(rec.current_batch_processed, rec.current_batch_total)]
    ELSE [total_uploaded_in_queue |-> 0, processed |-> 0, successful |-> 0,
          failed |-> 0, remaining |-> 0, status |-> "no_resumes_in_queue",
          progress_percentage |-> 0]

\* The current_batch block get_comprehensive_screening_status builds from the
\* tracker record (or from its absence) for a job that exists.
Snapshot(rec) ==
    IF rec.exists /\ rec.current_batch_total > 0
    THEN LET remaining == Max(0, rec.current_batch_total - rec.current_batch_processed)
             capped == Min(100, IntPercent(rec.current_batch_processed,
                                           rec.current_batch_total))
         IN [total_uploaded_in_queue |-> rec.current_batch_total,
             processed |-> rec.current_batch_processed,
             successful |-> rec.current_batch_successful,
             failed |-> rec.current_batch_failed,
             remaining |-> remaining,
             status |-> IF remaining = 0 THEN "completed"
                        ELSE IF rec.current_batch_processed > 0 THEN "processing"
                        ELSE "pending",
             progress_percentage |-> IF remaining = 0 THEN 100 ELSE capped]
    ELSE [total_uploaded_in_queue |-> 0, processed |-> 0, successful |-> 0,
          failed |-> 0, remaining |-> 0, status |-> "no_resumes_in_queue",
          progress_percentage |-> 0]

(***************************************************************************)
(* Idle values of the parts a specification does not use                   *)
(***************************************************************************)
NoScoreIn == [kind |-> "none"]
NoScoreOut == [kind |-> "none"]
NoRequest == [job_found |-> FALSE, resumes |-> << >>]

TrackerIdle ==
    /\ blob = {}
    /\ tracker = NoTracker
    /\ pc = [w \in Workers |-> "idle"]
    /\ local = [w \in Workers |-> NoLocal]
    /\ returned = {}

ScoreIdle ==
    /\ score_in = NoScoreIn
    /\ score_out = NoScoreOut

BatchIdle ==
    /\ request = NoRequest
    /\ idx = 0
    /\ candidate_reports = << >>
    /\ screenings = {}
    /\ uploaded = {}
    /\ response = "none"

NoCall == [op |-> "none", fault |-> "none", value |-> "none"]

JobIdle ==
    /\ job_exists = FALSE
    /\ call_result = NoCall

(***************************************************************************)
(* Tracker operations, split at their reads and writes of the stores       *)
(***************************************************************************)

\* A blob arrives in blob storage under the job's prefix.
Upload(f) ==
    /\ f \notin blob
    /\ blob' = blob \cup {f}
    /\ UNCHANGED <<tracker, pc, local, returned>>

\* initialize_or_increment_batch_total up to its write: get_screening_job_by_job_id,
\* then list_blobs when there is no tracker or the batch is completed. The blob
\* listing does not depend on the tracker, so the two reads are one step. An
\* existing tracker with nothing to reset ends the call here.
InitRead(w) ==
    /\ pc[w] = "idle"
    /\ IF ~tracker.exists
       THEN /\ pc' = [pc EXCEPT ![w] = "init_create"]
            /\ local' = [local EXCEPT ![w] =
                            [rec |-> NewTracker(BlobCount), filename |-> 0]]
       ELSE IF BatchCompleted(tracker) /\ NewBatchDetected(tracker, BlobCount)
       THEN /\ pc' = [pc EXCEPT ![w] = "init_upsert"]
            /\ local' = [local EXCEPT ![w] =
                            [rec |-> ResetBatch(tracker, BlobCount), filename |-> 0]]
       ELSE /\ pc' = pc
            /\ local' = local
    /\ UNCHANGED <<blob, tracker, returned>>

\* A variant that writes the new record with upsert_item.
InitCreateUpsert(w) ==
    /\ pc[w] = "init_create"
    /\ tracker' = local[w].rec
    /\ pc' = [pc EXCEPT ![w] = "idle"]
    /\ local' = [local EXCEPT ![w] = NoLocal]
    /\ UNCHANGED <<blob, returned>>

\* initialize_or_increment_batch_total, no tracker: create_item; a
\* CosmosResourceExistsError (the item exists by now) is swallowed.
InitCreate(w) ==
    /\ pc[w] = "init_create"
    /\ tracker' = IF tracker.exists THEN tracker ELSE local[w].rec
    /\ pc' = [pc EXCEPT ![w] = "idle"]
    /\ local' = [local EXCEPT ![w] = NoLocal]
    /\ UNCHANGED <<blob, returned>>

\* initialize_or_increment_batch_total, new batch: upsert_item, unconditional.
InitUpsert(w) ==
    /\ pc[w] = "init_upsert"
    /\ tracker' = local[w].rec
    /\ pc' = [pc EXCEPT ![w] = "idle"]
    /\ local' = [local EXCEPT ![w] = NoLocal]
    /\ UNCHANGED <<blob, returned>>

\* The end of an initialize_or_increment_batch_total call that went to
\* create_item: created or met by CosmosResourceExistsError, the call
\* returns True.
InitCreateReturn(w) ==
    /\ InitCreate(w)
    /\ call_result' = [op |-> "initialize",
                       fault |-> IF tracker.exists THEN "resource_exists" ELSE "none",
                       value |-> TRUE]
    /\ UNCHANGED job_exists

\* update_screening_job_progress_by_job_id: get_screening_job_by_job_id and the
\* in-memory update. Without a tracker the call returns False here.
RecRead(w, f, st) ==
    /\ pc[w] = "idle"
    /\ f \in blob
    /\ tracker.exists => Len(tracker.resume_statuses) < MaxConcurrentRecords
    /\ IF tracker.exists
       THEN /\ pc' = [pc EXCEPT ![w] = "rec_write"]
            /\ local' = [local EXCEPT ![w] =
                            [rec |-> ApplyOutcome(tracker, f, st), filename |-> f]]
       ELSE /\ pc' = pc
            /\ local' = local
    /\ UNCHANGED <<blob, tracker, returned>>

\* update_screening_job_progress_by_job_id: upsert_item, unconditional; returns True.
RecWrite(w) ==
    /\ pc[w] = "rec_write"
    /\ tracker' = local[w].rec
    /\ returned' = returned \cup {local[w].filename}
    /\ pc' = [pc EXCEPT ![w] = "idle"]
    /\ local' = [local EXCEPT ![w] = NoLocal]
    /\ UNCHANGED blob

Init ==
    /\ TrackerIdle
    /\ ScoreIdle
    /\ BatchIdle
    /\ JobIdle

Next ==
    \/ \E f \in BlobNames : Upload(f) /\ UNCHANGED <<svars, bvars, jvars>>
    \/ \E w \in Workers : InitRead(w) /\ UNCHANGED <<svars, bvars, jvars>>
    \/ \E w \in Workers : InitCreate(w) /\ UNCHANGED <<svars, bvars, jvars>>
    \/ \E w \in Workers : InitUpsert(w) /\ UNCHANGED <<svars, bvars, jvars>>
    \/ \E w \in Workers, f \in Files, st \in Outcomes : RecRead(w, f, st) /\ UNCHANGED <<svars, bvars, jvars>>
    \/ \E w \in Workers : RecWrite(w) /\ UNCHANGED <<svars, bvars, jvars>>

Spec == Init /\ [][Next]_vars

\* The same operations under tighter bounds, with the value an initialize
\* call that went to create_item returns.
MaxRaceFiles == 2
MaxRaceRecords == 1

\* The two workers whose calls race.
RaceWorkers == {1, 2}

NextRace ==
    \/ \E f \in 1..MaxRaceFiles : Upload(f) /\ UNCHANGED <<svars, bvars, jvars>>
    \/ \E w \in RaceWorkers : InitRead(w) /\ UNCHANGED <<svars, bvars, jvars>>
    \/ \E w \in RaceWorkers : InitCreateReturn(w) /\ UNCHANGED <<svars, bvars>>
    \/ \E w \in RaceWorkers : InitUpsert(w) /\ UNCHANGED <<svars, bvars, jvars>>
    \/ \E w \in RaceWorkers, f \in 1..MaxRaceFiles, st \in Outcomes :
          /\ tracker.exists => Len(tracker.resume_statuses) < MaxRaceRecords
          /\ RecRead(w, f, st)
          /\ UNCHANGED <<svars, bvars, jvars>>
    \/ \E w \in RaceWorkers : RecWrite(w) /\ UNCHANGED <<svars, bvars, jvars>>

SpecRace == Init /\ [][NextRace]_vars

(***************************************************************************)
(* Tracker operations, one whole call at a time                            *)
(***************************************************************************)

\* The record initialize_or_increment_batch_total leaves in the store when
\* nothing else runs between its read and its write.
InitializeOrIncrement(rec, blob_count) ==
    IF ~rec.exists THEN NewTracker(blob_count)
    ELSE IF BatchCompleted(rec) /\ NewBatchDetected(rec, blob_count)
         THEN ResetBatch(rec, blob_count)
         ELSE rec

InitializeCall ==
    /\ tracker' = InitializeOrIncrement(tracker, BlobCount)
    /\ UNCHANGED <<blob, pc, local, returned>>

\* A whole update_screening_job_progress_by_job_id call.
RecordCall(f, st) ==
    /\ f \in blob
    /\ tracker.exists
    /\ Len(tracker.resume_statuses) < MaxRecords
    /\ tracker' = ApplyOutcome(tracker, f, st)
    /\ returned' = returned \cup {f}
    /\ UNCHANGED <<blob, pc, local>>

\* The same call when no tracker record exists: it returns False.
RecordCallNoTracker(f, st) ==
    /\ f \in blob
    /\ ~tracker.exists
    /\ UNCHANGED tvars

NextSeq ==
    \/ \E f \in BlobNames : Upload(f) /\ UNCHANGED <<svars, bvars, jvars>>
    \/ InitializeCall /\ UNCHANGED <<svars, bvars, jvars>>
    \/ \E f \in Files, st \in Outcomes : RecordCall(f, st) /\ UNCHANGED <<svars, bvars, jvars>>
    \/ \E f \in Files, st \in Outcomes : RecordCallNoTracker(f, st) /\ UNCHANGED <<svars, bvars, jvars>>

SpecSeq == Init /\ [][NextSeq]_vars

(***************************************************************************)
(* Fit score aggregation: AIScreeningService._calculate_fit_score          *)
(***************************************************************************)
MaxSkills == 2
MaxMatches == 2

DefaultMustHaveWeight == 5
DefaultNiceToHaveWeight == 3
HighWeightThreshold == 8
NeutralScore == 50

\* Skill entries of a job: dicts with a "skill" and, optionally, a "weight".
MustHaveEntries ==
    {[skill |-> n, weight |-> 8] : n \in {"Python", "SQL"}}
        \cup {[skill |-> n] : n \in {"Python", "SQL"}}
NiceToHaveEntries == {[skill |-> "Docker", weight |-> 5], [skill |-> "Docker"]}

\* Entries of the lists _analyze_skills_match builds from the SkillMatcher reply.
MustMatchEntries ==
    {[skill |-> n, found_in_resume |-> b] : n \in {"Python", "SQL"}, b \in BOOLEAN}
NiceMatchEntries == {[skill |-> "Docker", found_in_resume |-> b] : b \in BOOLEAN}

SeqsUpTo(S, n) == UNION {[1..k -> S] : k \in 0..n}

\* Longer SkillMatcher replies: one that reports each must-have skill twice,
\* and one that reports a nice-to-have skill among the must-have matches.
LongMustMatchLists ==
    {<<[skill |-> "Python", found_in_resume |-> TRUE],
       [skill |-> "SQL", found_in_resume |-> TRUE],
       [skill |-> "Python", found_in_resume |-> TRUE],
       [skill |-> "SQL", found_in_resume |-> TRUE]>>,
     <<[skill |-> "Docker", found_in_resume |-> TRUE],
       [skill |-> "Python", found_in_resume |-> TRUE],
       [skill |-> "SQL", found_in_resume |-> FALSE]>>}

\* What the HolisticJudge call can come back with.
HolisticReplies ==
    {[kind |-> "raises"], [kind |-> "invalid_json"], [kind |-> "not_object"],
     [kind |-> "missing_key"], [kind |-> "non_number"]}
        \cup {[kind |-> "number", value |-> v] : v \in {-10, 60, 250}}

\* How the SkillMatcher call ends: with a reply that parses, with an
\* exception, or with text that is not JSON.
SkillMatcherFailures == {"raises", "unparsable"}

\* The arguments of one screening and what the two oracles come back with.
\* matched_must_have_list and matched_nice_to_have_list are the entries of a
\* SkillMatcher reply that parses; a failed call carries none.
ScoreInputs ==
    [must_have_skills : SeqsUpTo(MustHaveEntries, MaxSkills),
     nice_to_have_skills : SeqsUpTo(NiceToHaveEntries, 1),
     skill_matcher : {"replied"},
     matched_must_have_list :
        SeqsUpTo(MustMatchEntries, MaxMatches) \cup LongMustMatchLists,
     matched_nice_to_have_list :
        SeqsUpTo(NiceMatchEntries, 1)
            \cup {<<[skill |-> "Docker", found_in_resume |-> TRUE],
                    [skill |-> "Docker", found_in_resume |-> TRUE]>>},
     holistic : HolisticReplies]
    \cup
    [must_have_skills : SeqsUpTo(MustHaveEntries, MaxSkills),
     nice_to_have_skills : SeqsUpTo(NiceToHaveEntries, 1),
     skill_matcher : SkillMatcherFailures,
     matched_must_have_list : {<< >>},
     matched_nice_to_have_list : {<< >>},
     holistic : HolisticReplies]

\* Number of entries of a matched list that are reported found.
FoundCount(matched) ==
    Cardinality({i \in 1..Len(matched) : matched[i].found_in_resume})

\* _analyze_skills_match: the skills_analysis dict. From a reply that parses
\* it keeps the entries and counts those found; any exception in the call or
\* in reading the reply gives the empty match of the except clause.
AnalyzeSkillsMatch(in) ==
    IF in.skill_matcher = "replied"
    THEN [must_have_matched |-> FoundCount(in.matched_must_have_list),
          must_have_total |-> Len(in.must_have_skills),
          nice_to_have_matched |-> FoundCount(in.matched_nice_to_have_list),
          nice_to_have_total |-> Len(in.nice_to_have_skills),
          matched_must_have_list |-> in.matched_must_have_list,
          matched_nice_to_have_list |-> in.matched_nice_to_have_list]
    ELSE [must_have_matched |-> 0,
          must_have_total |-> Len(in.must_have_skills),
          nice_to_have_matched |-> 0,
          nice_to_have_total |-> Len(in.nice_to_have_skills),
          matched_must_have_list |-> << >>,
          matched_nice_to_have_list |-> << >>]

\* A variant whose defaults are 8 for a must-have and 5 for a nice-to-have skill.
WeightEightFive(skill, default) ==
    IF "weight" \in DOMAIN skill THEN skill.weight
    ELSE IF default = DefaultMustHaveWeight THEN 8 ELSE 5

\* skill.get("weight", default)
Weight(skill, default) ==
    IF "weight" \in DOMAIN skill THEN skill.weight ELSE default

\* sum(skill.get("weight", default) for skill in skills)
RECURSIVE TotalWeight(_, _)
TotalWeight(skills, default) ==
    IF skills = << >> THEN 0
    ELSE Weight(Head(skills), default) + TotalWeight(Tail(skills), default)

\* next((s for s in skills if s["skill"] == name), None): the index of the
\* first entry with that name, 0 for None.
RECURSIVE FirstIndex(_, _, _)
FirstIndex(skills, name, i) ==
    IF i > Len(skills) THEN 0
    ELSE IF skills[i].skill = name THEN i
    ELSE FirstIndex(skills, name, i + 1)

\* The loop over a matched list: the weight of every entry that was found and
\* names a skill of the job, entry by entry.
RECURSIVE MatchedWeight(_, _, _)
MatchedWeight(matched, skills, default) ==
    IF matched = << >> THEN 0
    ELSE LET m == Head(matched)
             i == FirstIndex(skills, m.skill, 1)
             w == IF m.found_in_resume /\ i > 0 THEN Weight(skills[i], default) ELSE 0
         IN w + MatchedWeight(Tail(matched), skills, default)

\* A variant that walks the job's must-have list and keeps the skills of
\* weight >= 8 that the matched list reports found.
RECURSIVE HighWeightSkillsJobOrder(_, _)
HighWeightSkillsJobOrder(matched, skills) ==
    IF skills = << >> THEN << >>
    ELSE LET s == Head(skills)
             rest == HighWeightSkillsJobOrder(matched, Tail(skills))
         IN IF Weight(s, DefaultMustHaveWeight) >= HighWeightThreshold
               /\ \E j \in 1..Len(matched) :
                     matched[j].found_in_resume /\ matched[j].skill = s.skill
            THEN <<s.skill>> \o rest
            ELSE rest

\* high_weight_skills: found entries naming a must-have skill of weight >= 8,
\* in the order of the matched list.
RECURSIVE HighWeightSkills(_, _)
HighWeightSkills(matched, skills) ==
    IF matched = << >> THEN << >>
    ELSE LET m == Head(matched)
             i == FirstIndex(skills, m.skill, 1)
             rest == HighWeightSkills(Tail(matched), skills)
         IN IF m.found_in_resume /\ i > 0
               /\ Weight(skills[i], DefaultMustHaveWeight) >= HighWeightThreshold
            THEN <<m.skill>> \o rest
            ELSE rest

\* A variant that returns the whole list.
WholeList(q) == q

\* high_weight_skills[:3]
FirstThree(q) == IF Len(q) <= 3 THEN q ELSE SubSeq(q, 1, 3)

\* A tier score as a fraction: matched / total * 100 when total > 0, else 0.
TierScore(matched_weight, total_weight) ==
    IF total_weight > 0
    THEN [num |-> matched_weight * 100, den |-> total_weight]
    ELSE [num |-> 0, den |-> 1]

MustHaveScore(in) ==
    TierScore(MatchedWeight(AnalyzeSkillsMatch(in).matched_must_have_list,
                            in.must_have_skills,
                            DefaultMustHaveWeight),
              TotalWeight(in.must_have_skills, DefaultMustHaveWeight))

NiceToHaveScore(in) ==
    TierScore(MatchedWeight(AnalyzeSkillsMatch(in).matched_nice_to_have_list,
                            in.nice_to_have_skills,
                            DefaultNiceToHaveWeight),
              TotalWeight(in.nice_to_have_skills, DefaultNiceToHaveWeight))

\* skills_score = must_have_score * 0.85 + nice_to_have_score * 0.15, as a fraction.
SkillsScore(in) ==
    LET m == MustHaveScore(in)
        n == NiceToHaveScore(in)
    IN [num |-> 85 * m.num * n.den + 15 * n.num * m.den, den |-> 100 * m.den * n.den]

\* skills_score * 0.70 + ai_score * 0.30, as a fraction.
Combined(in, ai_score) ==
    LET k == SkillsScore(in)
    IN [num |-> 70 * k.num + 30 * ai_score * k.den, den |-> 100 * k.den]

\* The ai_score the try/except around the HolisticJudge call leaves behind:
\* 50 when the call raises, the reply is not JSON, or it is not an object
\* (the except clause), 50 when the key is absent (the .get default), and
\* otherwise whatever value the reply carries.
AiScore(holistic) ==
    IF holistic.kind \in {"raises", "invalid_json", "not_object", "missing_key"}
    THEN [kind |-> "number", value |-> NeutralScore]
    ELSE holistic

Trunc(num, den) == IF num >= 0 THEN num \div den ELSE -((-num) \div den)

\* Round to nearest, ties to even: what round() would yield.
RoundOfFloat(num, den) ==
    LET fl == num \div den
        twice == 2 * (num - fl * den)
    IN IF twice < den THEN {fl}
       ELSE IF twice > den THEN {fl + 1}
       ELSE IF fl % 2 = 0 THEN {fl} ELSE {fl + 1}

\* int(x) of the float x computed for the exact value num / den. The float
\* differs from the exact value by rounding errors far smaller than 1 / den,
\* so int() truncates the exact value toward zero, except when the exact value
\* is a positive integer q: the float may then fall just below q, and int()
\* yields q - 1 (two thirds of the nice-to-have weight matched and nothing
\* else gives exactly 7, and the code returns 6).
IntOfFloat(num, den) ==
    IF num > 0 /\ num % den = 0
    THEN {num \div den - 1, num \div den}
    ELSE {Trunc(num, den)}

NoClamp(x) == x

\* min(100, max(0, final_score))
Clamp(x) == Min(100, Max(0, x))

\* Every result _calculate_fit_score can produce for the input: a FitScore
\* dict, or the TypeError raised by ai_score * 0.30 when ai_score is not a number.
FitScoreOutcomes(in) ==
    LET ai == AiScore(in.holistic)
    IN IF ai.kind # "number"
       THEN {[kind |-> "raised"]}
       ELSE LET c == Combined(in, ai.value)
            IN {[kind |-> "fit_score",
                 score |-> Clamp(v),
                 ai_score |-> ai.value,
                 weighted_skills_contributing |->
                    FirstThree(HighWeightSkills(
                        AnalyzeSkillsMatch(in).matched_must_have_list,
                        in.must_have_skills))]
                : v \in IntOfFloat(c.num, c.den)}

CalculateFitScore ==
    /\ score_out = NoScoreOut
    /\ score_out' \in FitScoreOutcomes(score_in)
    /\ UNCHANGED score_in

\* The rest of screen_candidate once _calculate_fit_score has ended: the
\* summary, skill depth, professional summary and company tier helpers each
\* catch their own failures, so a FitScore becomes the screening result; an
\* exception out of _calculate_fit_score is re-raised as "Failed to screen
\* candidate".
ScreenCandidateReturn ==
    /\ score_out.kind \in {"fit_score", "raised"}
    /\ score_out' =
          IF score_out.kind = "fit_score"
          THEN [kind |-> "screening_result",
                fit_score |-> [score |-> score_out.score,
                               weighted_skills_contributing |->
                                  score_out.weighted_skills_contributing],
                skills_analysis |-> AnalyzeSkillsMatch(score_in)]
          ELSE [kind |-> "screening_failed"]
    /\ UNCHANGED score_in

InitScore ==
    /\ TrackerIdle
    /\ BatchIdle
    /\ JobIdle
    /\ score_in \in ScoreInputs
    /\ score_out = NoScoreOut

NextScore ==
    \/ CalculateFitScore /\ UNCHANGED <<tvars, bvars, jvars>>
    \/ ScreenCandidateReturn /\ UNCHANGED <<tvars, bvars, jvars>>

SpecScore == InitScore /\ [][NextScore]_vars

(***************************************************************************)
(* One screen_resumes request (main.py)                                    *)
(***************************************************************************)

\* settings.MAX_RESUMES_PER_BATCH: read by screen_resumes, set by the deployment.
MAX_RESUMES_PER_BATCH == 2

\* What can happen to one resume of the request, named by the first step of
\* the loop body that fails for it.
HttpFailures == {"unsupported_type", "invalid_data_uri", "invalid_base64", "too_large"}
OtherFailures == {"upload_error", "parse_error", "screening_error", "report_error",
                  "save_error"}
ResumeKinds == {"ok"} \cup HttpFailures \cup OtherFailures

Requests ==
    [job_found : BOOLEAN,
     resumes : SeqsUpTo(ResumeKinds, MAX_RESUMES_PER_BATCH + 1)]

\* A variant in which a parse failure is raised as an HTTPException.
ResumeOutcomeParseFatal(kind) ==
    IF kind \in HttpFailures \cup {"parse_error"} THEN "raise"
    ELSE IF kind \in OtherFailures THEN "continue"
    ELSE "append"

\* How an iteration of the loop ends: the body raises HTTPException for a bad
\* file type, data URI, base64 text or size, and "except HTTPException: raise"
\* passes it on; any other exception (upload, parse_document, screen_candidate,
\* CandidateReport, save_screening_result) is caught and the loop continues;
\* otherwise the report is appended.
ResumeOutcome(kind) ==
    IF kind \in HttpFailures THEN "raise"
    ELSE IF kind \in OtherFailures THEN "continue"
    ELSE "append"

\* The resume's bytes reach blob_service.upload_file and are stored.
IsUploaded(kind) == kind \notin HttpFailures \cup {"upload_error"}

\* A variant that goes on to the loop when the job is not found.
StartRequestNoLookup ==
    /\ response = "none"
    /\ response' =
          IF request.resumes = << >> THEN "http400"
          ELSE IF Len(request.resumes) > MAX_RESUMES_PER_BATCH THEN "http400"
          ELSE "processing"
    /\ UNCHANGED <<request, idx, candidate_reports, screenings, uploaded>>

\* screen_resumes up to the loop: the checks on the request and the job lookup.
StartRequest ==
    /\ response = "none"
    /\ response' =
          IF request.resumes = << >> THEN "http400"
          ELSE IF Len(request.resumes) > MAX_RESUMES_PER_BATCH THEN "http400"
          ELSE IF ~request.job_found THEN "http404"
          ELSE "processing"
    /\ UNCHANGED <<request, idx, candidate_reports, screenings, uploaded>>

\* One iteration of "for idx, resume_data in enumerate(request.resumes, 1)".
ProcessResume ==
    /\ response = "processing"
    /\ idx < Len(request.resumes)
    /\ LET i == idx + 1
           kind == request.resumes[i]
           outcome == ResumeOutcome(kind)
       IN /\ idx' = i
          /\ uploaded' = IF IsUploaded(kind) THEN uploaded \cup {i} ELSE uploaded
          /\ screenings' = IF outcome = "append" THEN screenings \cup {i} ELSE screenings
          /\ candidate_reports' =
                IF outcome = "append" THEN Append(candidate_reports, i)
                ELSE candidate_reports
          /\ response' = IF outcome = "raise" THEN "http400" ELSE response
    /\ UNCHANGED request

\* After the loop: "if not candidate_reports" raises the 500, else the response.
FinishRequest ==
    /\ response = "processing"
    /\ idx = Len(request.resumes)
    /\ response' = IF candidate_reports = << >> THEN "http500" ELSE "ok"
    /\ UNCHANGED <<request, idx, candidate_reports, screenings, uploaded>>

InitBatch ==
    /\ TrackerIdle
    /\ ScoreIdle
    /\ JobIdle
    /\ request \in Requests
    /\ idx = 0
    /\ candidate_reports = << >>
    /\ screenings = {}
    /\ uploaded = {}
    /\ response = "none"

NextBatch ==
    \/ StartRequest /\ UNCHANGED <<tvars, svars, jvars>>
    \/ ProcessResume /\ UNCHANGED <<tvars, svars, jvars>>
    \/ FinishRequest /\ UNCHANGED <<tvars, svars, jvars>>

SpecBatch == InitBatch /\ [][NextBatch]_vars

(***************************************************************************)
(* Whole CosmosDBService calls on the stores, with store failures          *)
(***************************************************************************)
MaxStoreFiles == 2
MaxStoreRecords == 2
MaxScreenings == 2

\* Everything these calls leave alone.
ovars == <<pc, local, returned, score_in, score_out,
           request, idx, candidate_reports, uploaded, response>>

\* create_job_description: create_item in the jobs container.
CreateJobDescription ==
    /\ ~job_exists
    /\ job_exists' = TRUE
    /\ call_result' = [op |-> "create_job", fault |-> "none", value |-> "job_id"]
    /\ UNCHANGED <<blob, tracker, screenings>>

\* save_screening_result: create_item in the screenings container under a
\* fresh id; a failure is re-raised. (update_job_screening_count, called
\* after it, swallows its own failures.)
SaveScreeningResult(fault) ==
    /\ Cardinality(screenings) < MaxScreenings
    /\ IF fault = "none"
       THEN /\ screenings' = screenings \cup {Cardinality(screenings) + 1}
            /\ call_result' = [op |-> "save", fault |-> fault, value |-> "screening_id"]
       ELSE /\ screenings' = screenings
            /\ call_result' = [op |-> "save", fault |-> fault, value |-> "raised"]
    /\ UNCHANGED <<blob, tracker, job_exists>>

\* initialize_or_increment_batch_total: any exception inside it is caught and
\* the call returns True all the same.
InitializeStoreCall(fault) ==
    /\ tracker' = IF fault = "none" THEN InitializeOrIncrement(tracker, BlobCount)
                  ELSE tracker
    /\ call_result' = [op |-> "initialize", fault |-> fault, value |-> TRUE]
    /\ UNCHANGED <<blob, screenings, job_exists>>

\* A variant in which the record is stored before the failure shows.
UpdateOutcomeStoredOnFault(rec, resume_filename, status, fault) ==
    IF rec.exists /\ fault # "read"
    THEN [rec |-> ApplyOutcome(rec, resume_filename, status), value |-> fault = "none"]
    ELSE [rec |-> rec, value |-> FALSE]

\* update_screening_job_progress_by_job_id against a store that may fail:
\* the record left in the store and the value returned. A failed read comes
\* back from get_screening_job_by_job_id as None, like a missing record, and
\* the call returns False; a failed upsert_item raises into the except
\* clause, which returns False.
UpdateOutcome(rec, resume_filename, status, fault) ==
    IF rec.exists /\ fault = "none"
    THEN [rec |-> ApplyOutcome(rec, resume_filename, status), value |-> TRUE]
    ELSE [rec |-> rec, value |-> FALSE]

UpdateProgressCall(f, st, fault) ==
    /\ f \in blob
    /\ tracker.exists => Len(tracker.resume_statuses) < MaxStoreRecords
    /\ LET out == UpdateOutcome(tracker, f, st, fault)
       IN /\ tracker' = out.rec
          /\ call_result' = [op |-> "update", fault |-> fault, value |-> out.value]
    /\ UNCHANGED <<blob, screenings, job_exists>>

\* delete_job_and_screenings: get_screening_results, delete_item for each
\* result (latest first), then delete_item for the job. Any exception ends
\* the call with False and leaves what was deleted so far deleted; deleting a
\* job item that is not there raises CosmosResourceNotFoundError.
DeleteJobAndScreenings(fault) ==
    /\ \/ /\ fault = "query"
          /\ UNCHANGED <<screenings, job_exists>>
          /\ call_result' = [op |-> "delete", fault |-> fault, value |-> FALSE]
       \/ /\ fault = "delete_screening"
          /\ \E j \in 1..Cardinality(screenings) : screenings' = 1..j
          /\ UNCHANGED job_exists
          /\ call_result' = [op |-> "delete", fault |-> fault, value |-> FALSE]
       \/ /\ fault \in {"none", "delete_job"}
          /\ screenings' = {}
          /\ job_exists' = IF fault = "none" THEN FALSE ELSE job_exists
          /\ call_result' = [op |-> "delete", fault |-> fault,
                              value |-> (fault = "none" /\ job_exists)]
    /\ UNCHANGED <<blob, tracker>>

\* reset_screening_job_for_new_batch: the record is deleted when its stored
\* status is "completed", and only then does the call return True. A failed
\* read comes back as None and a failed delete_item is caught: both return
\* False and leave the record.
ResetScreeningJobForNewBatch(fault) ==
    /\ IF fault = "none" /\ tracker.exists /\ tracker.status = "completed"
       THEN /\ tracker' = NoTracker
            /\ call_result' = [op |-> "reset", fault |-> fault, value |-> TRUE]
       ELSE /\ tracker' = tracker
            /\ call_result' = [op |-> "reset", fault |-> fault, value |-> FALSE]
    /\ UNCHANGED <<blob, screenings, job_exists>>

\* A variant that takes only the filenames recorded with status "success"
\* as processed.
BatchInfoSuccessOnly(files_in_blob, rec, fault) ==
    LET processed_files ==
            IF rec.exists
            THEN {rec.resume_statuses[i].filename :
                    i \in {j \in 1..Len(rec.resume_statuses) :
                              rec.resume_statuses[j].status = "success"}}
            ELSE {}
        unprocessed_files == {f \in files_in_blob : f \notin processed_files}
    IN [total_in_blob |-> Cardinality(files_in_blob),
        unprocessed_files |-> unprocessed_files,
        current_batch_size |-> Cardinality(unprocessed_files),
        all_time_processed |-> IF rec.exists THEN rec.processed_resumes ELSE 0]

\* The dict get_current_batch_info returns (the keys the batch is sized
\* from; unprocessed_files as the set of its members). files_in_blob are the
\* blobs under the prefix that are not folder entries, processed_files the
\* filenames of resume_statuses; a failed tracker read comes back as None,
\* which is read as "no tracker", and any other exception gives the empty
\* dict of the except clause.
BatchInfo(files_in_blob, rec, fault) ==
    IF fault = "listing"
    THEN [total_in_blob |-> 0, unprocessed_files |-> {}, current_batch_size |-> 0,
          all_time_processed |-> 0]
    ELSE LET screening_job == IF fault = "read" THEN NoTracker ELSE rec
             processed_files == RecordedFilenames(screening_job)
             unprocessed_files == {f \in files_in_blob : f \notin processed_files}
         IN [total_in_blob |-> Cardinality(files_in_blob),
             unprocessed_files |-> unprocessed_files,
             current_batch_size |-> Cardinality(unprocessed_files),
             all_time_processed |->
                IF screening_job.exists THEN screening_job.processed_resumes ELSE 0]

GetCurrentBatchInfo(fault) ==
    /\ call_result' = [op |-> "batch_info", fault |-> fault,
                       value |-> BatchInfo({b \in blob : b # DirMarker}, tracker, fault)]
    /\ UNCHANGED <<blob, tracker, screenings, job_exists>>

InitStore ==
    /\ TrackerIdle
    /\ ScoreIdle
    /\ BatchIdle
    /\ JobIdle

\* Files arrive under names taken in order: which names they carry makes no
\* difference to any of these calls.
NextStore ==
    \/ CreateJobDescription /\ UNCHANGED ovars
    \/ \E f \in 1..MaxStoreFiles :
          f = Cardinality(blob) + 1 /\ Upload(f) /\ UNCHANGED <<svars, bvars, jvars>>
    \/ \E fault \in {"none", "create_item"} : SaveScreeningResult(fault) /\ UNCHANGED ovars
    \/ \E fault \in {"none", "store"} : InitializeStoreCall(fault) /\ UNCHANGED ovars
    \/ \E f \in 1..MaxStoreFiles, st \in Outcomes, fault \in {"none", "read", "write"} :
          UpdateProgressCall(f, st, fault) /\ UNCHANGED ovars
    \/ \E fault \in {"none", "query", "delete_screening", "delete_job"} :
          DeleteJobAndScreenings(fault) /\ UNCHANGED ovars
    \/ \E fault \in {"none", "store"} : ResetScreeningJobForNewBatch(fault) /\ UNCHANGED ovars
    \/ \E fault \in {"none", "listing", "read"} : GetCurrentBatchInfo(fault) /\ UNCHANGED ovars

SpecStore == InitStore /\ [][NextStore]_vars

(***************************************************************************)
(* Claims about the tracker                                                *)
(***************************************************************************)

EntriesFor(rec, f) ==
    {i \in 1..Len(rec.resume_statuses) : rec.resume_statuses[i].filename = f}

\* C1: recording an outcome is idempotent per filename: however often an
\* outcome is recorded for a filename, resume_statuses holds one entry for it
\* and the all-time processed count is the number of distinct filenames
\* recorded. The code appends and counts on every call, so this fails.
C1_RecordIdempotent ==
    tracker.exists =>
        /\ \A f \in Files : Cardinality(EntriesFor(tracker, f)) <= 1
        /\ tracker.processed_resumes = Cardinality(RecordedFilenames(tracker))

\* C2: once current_batch_total is locked (> 0), current_batch_processed never
\* exceeds it, whatever sequence of initialize and update calls is made.
\* (Stated for records in which no filename was recorded twice, so that the
\* repeated counting of C1 plays no part.) The update call has no such guard
\* and the total stays as locked while files keep arriving, so this fails.
C2_ProcessedWithinTotal ==
    (/\ tracker.exists
     /\ tracker.current_batch_total > 0
     /\ \A f \in Files : Cardinality(EntriesFor(tracker, f)) <= 1) =>
        tracker.current_batch_processed <= tracker.current_batch_total

\* C3: no increment is lost under concurrent update calls: once every worker
\* has returned, each filename whose update returned True is in
\* resume_statuses and the all-time counters (processed, and successful plus
\* failed) account for all of them. The code writes its copy back
\* unconditionally, so this fails.
C3_NoLostUpdate ==
    (tracker.exists /\ \A w \in Workers : pc[w] = "idle") =>
        /\ returned \subseteq RecordedFilenames(tracker)
        /\ tracker.processed_resumes >= Cardinality(returned)
        /\ tracker.successful_resumes + tracker.failed_resumes >= Cardinality(returned)

\* A step that is one recorded outcome with the batch total left as it was.
IsRecordStep ==
    /\ tracker.exists
    /\ tracker'.exists
    /\ tracker'.current_batch_total = tracker.current_batch_total
    /\ Len(tracker'.resume_statuses) = Len(tracker.resume_statuses) + 1

\* C4: for a fixed current_batch_total the progress_percentage of the snapshot
\* does not decrease from one recorded outcome to the next and is never above
\* 100.
C4_PercentageMonotone ==
    [][IsRecordStep =>
          /\ Snapshot(tracker').progress_percentage >= Snapshot(tracker).progress_percentage
          /\ Snapshot(tracker').progress_percentage <= 100
          /\ Snapshot(tracker).progress_percentage <= 100]_vars

\* C4 witness: two of three outcomes recorded in sequence, 66 percent reported.
C4_Witness ==
    /\ tracker.exists
    /\ tracker.current_batch_total = 3
    /\ tracker.current_batch_processed = 2
    /\ Len(tracker.resume_statuses) = 2
    /\ Snapshot(tracker).progress_percentage = 66

\* C10: the stored status is "completed" exactly when the batch counters say
\* the batch is complete. The code stores "processing" at creation and never
\* writes another status, so this fails.
C10_StatusCompletedIff ==
    tracker.exists =>
        (tracker.status = "completed" <=>
            (tracker.current_batch_processed = tracker.current_batch_total
             /\ tracker.current_batch_total > 0))

\* Entries of resume_statuses that carry the given status.
EntriesWithStatus(rec, st) ==
    {i \in 1..Len(rec.resume_statuses) : rec.resume_statuses[i].status = st}

\* The record is in its first batch and holds one entry for each of exactly
\* current_batch_total distinct filenames.
FirstBatchAllRecorded(rec) ==
    /\ rec.exists
    /\ rec.batch_no = 1
    /\ rec.current_batch_total > 0
    /\ Len(rec.resume_statuses) = rec.current_batch_total
    /\ Cardinality(RecordedFilenames(rec)) = rec.current_batch_total

\* C11: after the first initialize call has locked current_batch_total = T > 0
\* and T outcomes for T distinct filenames have been recorded one after
\* another, s of them success and f failed, the snapshot of the current batch
\* reports status completed, 100 percent, successful = s, failed = f and
\* remaining = 0.
C11_FullBatchReportsCompleted ==
    FirstBatchAllRecorded(tracker) =>
        LET snap == Snapshot(tracker)
            s == Cardinality(EntriesWithStatus(tracker, "success"))
            f == Cardinality(EntriesWithStatus(tracker, "failed"))
        IN /\ s + f = tracker.current_batch_total
           /\ snap.status = "completed"
           /\ snap.progress_percentage = 100
           /\ snap.successful = s
           /\ snap.failed = f
           /\ snap.remaining = 0
           /\ snap.processed = tracker.current_batch_total

\* C11 witness: a batch of three, two recorded as success and one as failed,
\* reported completed.
C11_Witness ==
    /\ FirstBatchAllRecorded(tracker)
    /\ tracker.current_batch_total = 3
    /\ Cardinality(EntriesWithStatus(tracker, "success")) = 2
    /\ Cardinality(EntriesWithStatus(tracker, "failed")) = 1
    /\ Snapshot(tracker).status = "completed"
    /\ Snapshot(tracker).successful = 2
    /\ Snapshot(tracker).failed = 1

\* A step of initialize_or_increment_batch_total on an existing record: the
\* blobs and the recorded entries stay as they are.
IsInitializeStep ==
    /\ tracker.exists
    /\ tracker'.exists
    /\ blob' = blob
    /\ tracker'.resume_statuses = tracker.resume_statuses

\* C12: when initialize_or_increment_batch_total finds the previous batch
\* completed and more files in the store than the all-time processed count,
\* it sets current_batch_total to files_in_store - processed_resumes, zeroes
\* the batch counters and starts a new batch, for every completed batch of the
\* job. (Stated for records in which no filename was recorded twice.) The
\* code compares with and subtracts current_batch_processed, which equals the
\* all-time count only in the first batch, so this fails.
C12_NewBatchSizedAgainstAllTime ==
    [][(/\ IsInitializeStep
        /\ BatchCompleted(tracker)
        /\ \A f \in Files : Cardinality(EntriesFor(tracker, f)) <= 1
        /\ BlobCount > tracker.processed_resumes) =>
            /\ tracker'.current_batch_total = BlobCount - tracker.processed_resumes
            /\ tracker'.current_batch_processed = 0
            /\ tracker'.current_batch_successful = 0
            /\ tracker'.current_batch_failed = 0
            /\ tracker'.batch_no = tracker.batch_no + 1]_vars

\* Worker w writes the reset it prepared, and the stored record already
\* belongs to the batch that reset starts (or a later one): another worker's
\* reset came first.
IsLosingReset(w) ==
    /\ pc[w] = "init_upsert"
    /\ pc'[w] = "idle"
    /\ tracker.exists
    /\ tracker.batch_no >= local[w].rec.batch_no

\* C13: new-batch detection is idempotent under concurrent attempts: of the
\* workers that detect the same completed batch the first writer wins, and a
\* losing worker's write leaves the stored record as it is: the batch total
\* and start, current_batch_processed, the all-time counters and the entries
\* of resume_statuses. The code upserts the copy it read before the winner's
\* reset, so this fails.
C13_ResetFirstWriterWins ==
    [][\A w \in Workers :
          IsLosingReset(w) =>
              /\ tracker'.current_batch_total = tracker.current_batch_total
              /\ tracker'.batch_no = tracker.batch_no
              /\ tracker'.current_batch_processed = tracker.current_batch_processed
              /\ tracker'.processed_resumes = tracker.processed_resumes
              /\ tracker'.successful_resumes = tracker.successful_resumes
              /\ tracker'.failed_resumes = tracker.failed_resumes
              /\ tracker'.resume_statuses = tracker.resume_statuses]_vars

\* C14: when initialize_or_increment_batch_total finds no tracker record it
\* creates one whose current_batch_total is the number of files under the
\* job's prefix (entries ending in "/" not counted), with the batch counters
\* and the all-time counters at 0 and an empty resume_statuses.
C14_CreatedWithStoreCount ==
    [][(~tracker.exists /\ tracker'.exists) =>
          /\ tracker'.current_batch_total = Cardinality(blob \cap Files)
          /\ tracker'.current_batch_processed = 0
          /\ tracker'.current_batch_successful = 0
          /\ tracker'.current_batch_failed = 0
          /\ tracker'.processed_resumes = 0
          /\ tracker'.successful_resumes = 0
          /\ tracker'.failed_resumes = 0
          /\ tracker'.resume_statuses = << >>]_vars

\* C14 witness: three files and a folder entry in the store, and a fresh
\* record with current_batch_total 3.
C14_Witness ==
    /\ tracker.exists
    /\ DirMarker \in blob
    /\ Cardinality(blob \cap Files) = 3
    /\ tracker.current_batch_total = 3
    /\ tracker.processed_resumes = 0
    /\ tracker.resume_statuses = << >>

\* C19 as stated: with current_batch_total > 0 the snapshot reports
\* progress_percentage = min(100, round(processed / total * 100)) and
\* remaining = max(0, total - processed); without a tracker or with total 0
\* it reports 0.
C19_RoundedPercentage ==
    LET snap == Snapshot(tracker)
    IN IF tracker.exists /\ tracker.current_batch_total > 0
       THEN /\ snap.progress_percentage \in
                  {Min(100, r) : r \in RoundOfFloat(100 * tracker.current_batch_processed,
                                                    tracker.current_batch_total)}
            /\ snap.remaining =
                  Max(0, tracker.current_batch_total - tracker.current_batch_processed)
       ELSE snap.progress_percentage = 0

\* C19 amended: with current_batch_total > 0 the snapshot reports the
\* quotient processed / total * 100 truncated toward zero (never rounded up)
\* and capped at 100: 100 when processed >= total, and otherwise a value that
\* is not above the quotient and less than one below it (exactly one below
\* only where the quotient is an integer); remaining is
\* max(0, total - processed); without a tracker or with total 0 the
\* percentage and remaining are 0.
C19_TruncatedPercentage ==
    LET snap == Snapshot(tracker)
    IN IF tracker.exists /\ tracker.current_batch_total > 0
       THEN LET done == tracker.current_batch_processed
                total == tracker.current_batch_total
                pct == snap.progress_percentage
            IN /\ pct \in 0..100
               /\ done >= total => pct = 100
               /\ done < total =>
                     /\ pct * total <= 100 * done
                     /\ 100 * done <= (pct + 1) * total
                     /\ (100 * done) % total # 0 => 100 * done < (pct + 1) * total
               /\ snap.remaining = (IF total > done THEN total - done ELSE 0)
       ELSE /\ snap.progress_percentage = 0
            /\ snap.remaining = 0

\* C19 witness: one of three outcomes recorded, 33 percent and 2 remaining
\* reported.
C19_Witness ==
    /\ tracker.exists
    /\ tracker.current_batch_total = 3
    /\ tracker.current_batch_processed = 1
    /\ Snapshot(tracker).progress_percentage = 33
    /\ Snapshot(tracker).remaining = 2

\* C27: when two workers call initialize_or_increment_batch_total while no
\* tracker record exists, one record exists afterwards: the create_item of
\* the worker that comes second meets a resource-exists conflict that is
\* swallowed and leaves the stored record exactly as it was (the first
\* worker's current_batch_total and zeroed counters, as created), and both
\* calls return True.
C27_CreateRaceOneRecord ==
    [][\A w \in RaceWorkers :
          (pc[w] = "init_create" /\ pc'[w] = "idle") =>
              /\ call_result'.op = "initialize"
              /\ call_result'.value = TRUE
              /\ tracker'.exists
              /\ IF tracker.exists
                 THEN /\ call_result'.fault = "resource_exists"
                      /\ tracker' = tracker
                 ELSE /\ call_result'.fault = "none"
                      /\ tracker'.current_batch_total = local[w].rec.current_batch_total
                      /\ tracker'.current_batch_processed = 0
                      /\ tracker'.current_batch_successful = 0
                      /\ tracker'.current_batch_failed = 0
                      /\ tracker'.resume_statuses = << >>]_vars

\* C27 witness: both workers have returned, the second from a conflict; it
\* had counted two files, and the record still carries the first worker's
\* total of one.
C27_Witness ==
    /\ call_result = [op |-> "initialize", fault |-> "resource_exists", value |-> TRUE]
    /\ \A w \in RaceWorkers : pc[w] = "idle"
    /\ tracker.exists
    /\ tracker.current_batch_total = 1
    /\ tracker.resume_statuses = << >>
    /\ BlobCount = 2

\* C28: in every reachable state, also under concurrent workers, the
\* tracker's counters agree with each other: current_batch_processed =
\* current_batch_successful + current_batch_failed, processed_resumes =
\* successful_resumes + failed_resumes = the number of entries of
\* resume_statuses, and current_batch_processed <= processed_resumes.
C28_CountersConsistent ==
    tracker.exists =>
        /\ tracker.current_batch_processed =
              tracker.current_batch_successful + tracker.current_batch_failed
        /\ tracker.processed_resumes = tracker.successful_resumes + tracker.failed_resumes
        /\ tracker.processed_resumes = Len(tracker.resume_statuses)
        /\ tracker.current_batch_processed <= tracker.processed_resumes

\* C28 witness: two workers have each recorded a file and returned True,
\* and one of the two updates overwrote the other.
C28_Witness ==
    /\ tracker.exists
    /\ Cardinality(returned) = 2
    /\ Len(tracker.resume_statuses) = 1
    /\ tracker.resume_statuses[1].status = "failed"
    /\ \A w \in RaceWorkers : pc[w] = "idle"

(***************************************************************************)
(* Claims about the stores                                                 *)
(***************************************************************************)

\* C15: once delete_job_and_screenings has returned True, the job, every
\* screening record of the job and the job's tracker record are gone. The
\* code deletes the screening records and the job item and never touches the
\* screening-jobs container, so this fails.
C15_CascadeDeleteRemovesTracker ==
    (call_result.op = "delete" /\ call_result.value = TRUE) =>
        /\ ~job_exists
        /\ screenings = {}
        /\ ~tracker.exists

\* C17: update_screening_job_progress_by_job_id never raises, and a call that
\* finds no tracker record or meets a failing read or write returns False,
\* leaves the stored tracker record as it was and leaves every stored
\* screening record in place.
C17_UpdateBestEffort ==
    [][call_result'.op = "update" =>
          /\ call_result'.value \in BOOLEAN
          /\ (~tracker.exists \/ call_result'.fault # "none") =>
                /\ call_result'.value = FALSE
                /\ tracker' = tracker
                /\ screenings' = screenings]_vars

\* C17 witness: a report is stored, a tracker record exists, and the update
\* that followed met a failing write and returned False.
C17_Witness ==
    /\ call_result = [op |-> "update", fault |-> "write", value |-> FALSE]
    /\ tracker.exists
    /\ tracker.resume_statuses = << >>
    /\ screenings # {}

\* C21: initialize_or_increment_batch_total on an existing tracker record
\* whose batch is not complete (current_batch_processed below
\* current_batch_total, or current_batch_total = 0) leaves the whole record
\* as it was, however many files the store holds.
C21_InFlightBatchUntouched ==
    [][(/\ call_result'.op = "initialize"
        /\ tracker.exists
        /\ \/ tracker.current_batch_processed < tracker.current_batch_total
           \/ tracker.current_batch_total = 0) =>
          tracker' = tracker]_vars

\* C21 witness: a record created while the store was empty (total 0), two
\* files in the store since, one outcome recorded, and initialize run after
\* that.
C21_Witness ==
    /\ call_result.op = "initialize"
    /\ tracker.exists
    /\ tracker.current_batch_total = 0
    /\ tracker.current_batch_processed = 1
    /\ BlobCount = 2

\* The files in the store: blobs under the prefix that are not folder entries.
StoreFiles == {b \in blob : b # DirMarker}

\* C25: the tracker record is deleted, or its batch counters are reset, only
\* when the prior batch has completed and the store holds files that are not
\* recorded in resume_statuses; in every other case
\* initialize_or_increment_batch_total and reset_screening_job_for_new_batch
\* leave the record in place with its total and batch counters unchanged.
\* initialize compares the file count with the batch counter, so it resets a
\* completed second batch although every file is recorded, and this fails.
C25_ResetOnlyForNewFiles ==
    [][(/\ call_result'.op \in {"initialize", "reset"}
        /\ tracker.exists
        /\ \/ ~tracker'.exists
           \/ tracker'.current_batch_total # tracker.current_batch_total
           \/ tracker'.current_batch_processed # tracker.current_batch_processed
           \/ tracker'.current_batch_successful # tracker.current_batch_successful
           \/ tracker'.current_batch_failed # tracker.current_batch_failed) =>
          /\ tracker.current_batch_total > 0
          /\ tracker.current_batch_processed >= tracker.current_batch_total
          /\ StoreFiles \ RecordedFilenames(tracker) # {}]_vars

\* C26: a get_current_batch_info call whose blob listing and tracker read
\* succeed returns as unprocessed_files exactly the files in the store whose
\* filename is not in resume_statuses, and current_batch_size plus the number
\* of store files recorded in the tracker is total_in_blob; so a file whose
\* report was stored but whose outcome never reached the tracker is reported
\* as unprocessed.
C26_UnprocessedAreUnrecorded ==
    [][(/\ call_result'.op = "batch_info"
        /\ call_result'.fault = "none"
        /\ blob' = blob) =>
          LET info == call_result'.value
          IN /\ info.unprocessed_files = StoreFiles \ RecordedFilenames(tracker)
             /\ info.total_in_blob = Cardinality(StoreFiles)
             /\ info.current_batch_size
                   + Cardinality(StoreFiles \cap RecordedFilenames(tracker))
                = info.total_in_blob]_vars

\* C26 witness: two files in the store and two reports stored, one outcome
\* recorded (as failed), and the other file returned as the only unprocessed
\* one.
C26_Witness ==
    /\ call_result.op = "batch_info"
    /\ call_result.fault = "none"
    /\ StoreFiles = {1, 2}
    /\ Cardinality(screenings) = 2
    /\ tracker.exists
    /\ tracker.resume_statuses = <<[filename |-> 1, status |-> "failed"]>>
    /\ call_result.value.unprocessed_files = {2}
    /\ call_result.value.current_batch_size = 1

\* C29: the new-batch reset changes only current_batch_total,
\* current_batch_processed, current_batch_successful, current_batch_failed
\* and batch_start_time (updated_at is not modelled): the all-time counters
\* and resume_statuses stay as they were. Over any run of whole calls the
\* all-time counters never decrease and resume_statuses only grows at its
\* end: no entry is removed, rewritten or moved.
C29_ResetKeepsAllTime ==
    [][tracker.exists =>
          /\ tracker'.exists
          /\ tracker'.processed_resumes >= tracker.processed_resumes
          /\ tracker'.successful_resumes >= tracker.successful_resumes
          /\ tracker'.failed_resumes >= tracker.failed_resumes
          /\ Len(tracker'.resume_statuses) >= Len(tracker.resume_statuses)
          /\ SubSeq(tracker'.resume_statuses, 1, Len(tracker.resume_statuses))
                = tracker.resume_statuses
          /\ call_result'.op = "initialize" =>
                [tracker' EXCEPT
                    !.current_batch_total = tracker.current_batch_total,
                    !.current_batch_processed = tracker.current_batch_processed,
                    !.current_batch_successful = tracker.current_batch_successful,
                    !.current_batch_failed = tracker.current_batch_failed,
                    !.batch_no = tracker.batch_no] = tracker]_vars

\* C29 witness: a batch of one was recorded and a second file arrived; the
\* reset has started the second batch and the all-time counters and the
\* entry of the first are still there.
C29_Witness ==
    /\ call_result.op = "initialize"
    /\ tracker.exists
    /\ tracker.batch_no = 2
    /\ tracker.current_batch_total = 1
    /\ tracker.current_batch_processed = 0
    /\ tracker.processed_resumes = 1
    /\ tracker.successful_resumes = 1
    /\ tracker.resume_statuses = <<[filename |-> 1, status |-> "success"]>>

(***************************************************************************)
(* Claims about the fit score                                              *)
(***************************************************************************)

\* Names of the entries of a matched list that were reported found.
FoundNames(matched) ==
    {matched[i].skill : i \in {j \in 1..Len(matched) : matched[j].found_in_resume}}

\* The scenario of the specification: must-have Python 8 and SQL 8 with only
\* Python matched, nice-to-have Docker 5 unmatched, holistic score 60.
IsSpecExample(in) ==
    /\ in.must_have_skills = <<[skill |-> "Python", weight |-> 8],
                               [skill |-> "SQL", weight |-> 8]>>
    /\ in.nice_to_have_skills = <<[skill |-> "Docker", weight |-> 5]>>
    /\ FoundNames(in.matched_must_have_list) = {"Python"}
    /\ MatchedWeight(in.matched_must_have_list, in.must_have_skills,
                     DefaultMustHaveWeight) = 8
    /\ FoundNames(in.matched_nice_to_have_list) = {}
    /\ in.holistic = [kind |-> "number", value |-> 60]

\* C7: whenever _calculate_fit_score returns a FitScore, its score is an
\* integer from 0 to 100, for every skill list, every matched list and every
\* holistic value.
C7_ScoreInRange ==
    score_out.kind = "fit_score" => score_out.score \in 0..100

\* C7 witness: a must-have tier above 100 (a skill reported twice) and a
\* holistic value of 250, returned as 100.
C7_Witness ==
    /\ score_out.kind = "fit_score"
    /\ score_in.holistic = [kind |-> "number", value |-> 250]
    /\ MustHaveScore(score_in).num > 100 * MustHaveScore(score_in).den
    /\ score_out.score = 100

\* C8 as stated: the final score is the combined value rounded to the nearest
\* integer and clamped, and the scenario of the specification yields tier
\* scores 50 and 0, skills_score 42.5 and final score 48. (Stated where the
\* combined value is not an integer, so that float rounding plays no part.)
C8_RoundedFinal ==
    score_out.kind = "fit_score" =>
        LET c == Combined(score_in, score_out.ai_score)
        IN /\ c.num % c.den # 0 =>
                score_out.score \in {Min(100, Max(0, r)) : r \in RoundOfFloat(c.num, c.den)}
           /\ IsSpecExample(score_in) => score_out.score = 48

\* C8 amended: the final score is the combined value truncated toward zero
\* (never rounded up) and clamped to [0,100]: it never exceeds the combined
\* value unless clamped to 0, and it is less than one below it unless clamped
\* to 100 (exactly one below only when the combined value is an integer); in
\* the scenario of the specification the tier scores are 50 and 0,
\* skills_score is 42.5 and the final score is 47.
C8_TruncatedFinal ==
    score_out.kind = "fit_score" =>
        LET c == Combined(score_in, score_out.ai_score)
            m == MustHaveScore(score_in)
            n == NiceToHaveScore(score_in)
            k == SkillsScore(score_in)
        IN /\ score_out.score \in 0..100
           /\ score_out.score > 0 => score_out.score * c.den <= c.num
           /\ score_out.score < 100 => c.num <= (score_out.score + 1) * c.den
           /\ (score_out.score < 100 /\ c.num % c.den # 0) =>
                c.num < (score_out.score + 1) * c.den
           /\ IsSpecExample(score_in) =>
                /\ m.num = 50 * m.den
                /\ n.num = 0
                /\ 2 * k.num = 85 * k.den
                /\ score_out.score = 47

\* C8 witness: the scenario of the specification, scored 47.
C8_Witness ==
    /\ score_out.kind = "fit_score"
    /\ IsSpecExample(score_in)
    /\ score_out.score = 47

\* C9: a failing HolisticJudge never makes scoring fail: when the call raises,
\* the reply is not valid JSON, or ai_fit_score is missing or not a number,
\* a FitScore computed with the neutral score 50 is returned. A reply whose
\* ai_fit_score is not a number raises a TypeError instead, so this fails.
C9_HolisticNeverFatal ==
    (score_out.kind \in {"fit_score", "raised"} /\ score_in.holistic.kind # "number") =>
        /\ score_out.kind = "fit_score"
        /\ score_out.ai_score = NeutralScore

\* C18: the weighted_skills_contributing list of a returned FitScore has at
\* most 3 entries, and every entry names a must-have skill of the job that
\* has weight >= 8 and that the matched list reports as found: never a
\* skill that is only nice-to-have, one reported not found, or one absent
\* from the job's must-have list.
C18_ContributingSkills ==
    score_out.kind = "fit_score" =>
        LET w == score_out.weighted_skills_contributing
            must == score_in.must_have_skills
        IN /\ Len(w) <= 3
           /\ \A i \in 1..Len(w) :
                 /\ \E k \in 1..Len(must) :
                       /\ must[k].skill = w[i]
                       /\ "weight" \in DOMAIN must[k]
                       /\ must[k].weight >= 8
                 /\ w[i] \in FoundNames(score_in.matched_must_have_list)
                 /\ w[i] \notin {n.skill : n \in NiceToHaveEntries}

\* C18 witness: four found entries of weight 8 and a list of three returned.
C18_Witness ==
    /\ score_out.kind = "fit_score"
    /\ Len(HighWeightSkills(score_in.matched_must_have_list,
                            score_in.must_have_skills)) = 4
    /\ score_out.weighted_skills_contributing = <<"Python", "SQL", "Python">>

\* The skills_analysis of a failed SkillMatcher call: nothing matched, the
\* totals those of the job's skill lists.
EmptyMatch(in) ==
    [must_have_matched |-> 0,
     must_have_total |-> Len(in.must_have_skills),
     nice_to_have_matched |-> 0,
     nice_to_have_total |-> Len(in.nice_to_have_skills),
     matched_must_have_list |-> << >>,
     matched_nice_to_have_list |-> << >>]

\* C20: when the SkillMatcher call fails entirely, _analyze_skills_match
\* returns the empty match, both tier scores of _calculate_fit_score are 0,
\* and screen_candidate still returns a result: the scoring never ends in an
\* exception and the result carries the empty match and a score in 0..100.
\* With a HolisticJudge reply whose ai_fit_score is not a number the scoring
\* raises (C9) and screen_candidate fails, so this fails.
C20_SkillMatcherFailureDegrades ==
    (score_out.kind # "none" /\ score_in.skill_matcher \in SkillMatcherFailures) =>
        /\ AnalyzeSkillsMatch(score_in) = EmptyMatch(score_in)
        /\ MustHaveScore(score_in).num = 0
        /\ NiceToHaveScore(score_in).num = 0
        /\ score_out.kind \in {"fit_score", "screening_result"}
        /\ score_out.kind = "screening_result" =>
              /\ score_out.skills_analysis = EmptyMatch(score_in)
              /\ score_out.fit_score.score \in 0..100
              /\ score_out.fit_score.weighted_skills_contributing = << >>

\* C22: the must-have and the nice-to-have tier score lie in [0,100] for
\* every skill list and every matched list the SkillMatcher can return, also
\* one that repeats a skill name or names a skill that is not in the tier.
\* The loops add a skill's weight once per found entry, so a name reported
\* found twice counts twice and this fails.
C22_TierScoresInRange ==
    score_out.kind = "fit_score" =>
        LET m == MustHaveScore(score_in)
            n == NiceToHaveScore(score_in)
        IN /\ 0 <= m.num /\ m.num <= 100 * m.den
           /\ 0 <= n.num /\ n.num <= 100 * n.den

\* Positions of the matched list whose entry is reported found and names a
\* skill of the job's list that carries an explicit weight >= 8 (the entry
\* of the job's list that is looked at is the first with that name).
QualifyingPositions(matched, skills) ==
    {j \in 1..Len(matched) :
        /\ matched[j].found_in_resume
        /\ \E k \in 1..Len(skills) :
              /\ skills[k].skill = matched[j].skill
              /\ \A h \in 1..(k - 1) : skills[h].skill # matched[j].skill
              /\ "weight" \in DOMAIN skills[k]
              /\ skills[k].weight >= 8}

\* Positions of the job's must-have list whose skill has weight >= 8 and is
\* reported found somewhere in the matched list.
QualifyingJobPositions(matched, skills) ==
    {k \in 1..Len(skills) :
        /\ "weight" \in DOMAIN skills[k]
        /\ skills[k].weight >= 8
        /\ skills[k].skill \in FoundNames(matched)}

\* The i-th smallest member of a set of positions.
NthPosition(P, i) ==
    CHOOSE p \in P : Cardinality({q \in P : q < p}) = i - 1

\* C23 as stated: weighted_skills_contributing lists the qualifying skills in
\* the order of the job's must-have list, the first 3 in that order, whatever
\* order the SkillMatcher returned them in.
C23_JobListOrder ==
    score_out.kind = "fit_score" =>
        LET w == score_out.weighted_skills_contributing
            must == score_in.must_have_skills
            P == QualifyingJobPositions(score_in.matched_must_have_list, must)
        IN /\ Len(w) = Min(3, Cardinality(P))
           /\ \A i \in 1..Len(w) : w[i] = must[NthPosition(P, i)].skill

\* C23 amended: weighted_skills_contributing lists the qualifying skills in
\* the order of the SkillMatcher's matched list, one per found entry, and the
\* cap keeps the first 3 in that order.
C23_MatchedListOrder ==
    score_out.kind = "fit_score" =>
        LET w == score_out.weighted_skills_contributing
            matched == score_in.matched_must_have_list
            P == QualifyingPositions(matched, score_in.must_have_skills)
        IN /\ Len(w) = Min(3, Cardinality(P))
           /\ \A i \in 1..Len(w) : w[i] = matched[NthPosition(P, i)].skill

\* C23 witness: the job lists Python before SQL, the SkillMatcher reports
\* SQL before Python, and the list returned is SQL, Python.
C23_Witness ==
    /\ score_out.kind = "fit_score"
    /\ score_in.must_have_skills =
          <<[skill |-> "Python", weight |-> 8], [skill |-> "SQL", weight |-> 8]>>
    /\ score_in.matched_must_have_list =
          <<[skill |-> "SQL", found_in_resume |-> TRUE],
            [skill |-> "Python", found_in_resume |-> TRUE]>>
    /\ score_out.weighted_skills_contributing = <<"SQL", "Python">>

\* The combined value skills_score * 0.70 + ai_score * 0.30 as a fraction,
\* for default weights dm (must-have) and dn (nice-to-have).
CombinedWithDefaults(in, ai_score, dm, dn) ==
    LET a == AnalyzeSkillsMatch(in)
        m == TierScore(MatchedWeight(a.matched_must_have_list, in.must_have_skills, dm),
                       TotalWeight(in.must_have_skills, dm))
        n == TierScore(MatchedWeight(a.matched_nice_to_have_list, in.nice_to_have_skills, dn),
                       TotalWeight(in.nice_to_have_skills, dn))
        k == [num |-> 85 * m.num * n.den + 15 * n.num * m.den, den |-> 100 * m.den * n.den]
    IN [num |-> 70 * k.num + 30 * ai_score * k.den, den |-> 100 * k.den]

\* Found must-have names whose entry in the job's list has no explicit weight.
FoundUnweighted(in) ==
    {n \in FoundNames(AnalyzeSkillsMatch(in).matched_must_have_list) :
        \E k \in 1..Len(in.must_have_skills) :
            /\ in.must_have_skills[k].skill = n
            /\ \A h \in 1..(k - 1) : in.must_have_skills[h].skill # n
            /\ "weight" \notin DOMAIN in.must_have_skills[k]}

\* C24 as stated: a skill without an explicit weight counts with weight 8
\* (must-have) or 5 (nice-to-have), so a found must-have skill without an
\* explicit weight is listed in weighted_skills_contributing (up to the cap).
C24_DefaultsEightFive ==
    score_out.kind = "fit_score" =>
        LET c == CombinedWithDefaults(score_in, score_out.ai_score, 8, 5)
        IN /\ score_out.score \in {Min(100, Max(0, v)) : v \in IntOfFloat(c.num, c.den)}
           /\ Len(score_out.weighted_skills_contributing) < 3 =>
                \A n \in FoundUnweighted(score_in) :
                    \E i \in 1..Len(score_out.weighted_skills_contributing) :
                        score_out.weighted_skills_contributing[i] = n

\* C24 amended: a skill without an explicit weight counts with weight 5
\* (must-have) or 3 (nice-to-have), so a found must-have skill without an
\* explicit weight is below the threshold 8 and never listed in
\* weighted_skills_contributing.
C24_DefaultsFiveThree ==
    score_out.kind = "fit_score" =>
        LET c == CombinedWithDefaults(score_in, score_out.ai_score, 5, 3)
        IN /\ score_out.score \in {Min(100, Max(0, v)) : v \in IntOfFloat(c.num, c.den)}
           /\ \A n \in FoundUnweighted(score_in) :
                 \A i \in 1..Len(score_out.weighted_skills_contributing) :
                     score_out.weighted_skills_contributing[i] # n

\* C24 witness: Python has weight 8, SQL and Docker have none, and only SQL
\* is found: the must-have tier is 5 of 13, the score with a holistic value
\* of 60 is 40 (8 of 16 would give 47), and SQL is not listed.
C24_Witness ==
    /\ score_out.kind = "fit_score"
    /\ score_in.must_have_skills = <<[skill |-> "Python", weight |-> 8], [skill |-> "SQL"]>>
    /\ score_in.nice_to_have_skills = <<[skill |-> "Docker"]>>
    /\ FoundNames(score_in.matched_must_have_list) = {"SQL"}
    /\ FoundNames(score_in.matched_nice_to_have_list) = {}
    /\ score_in.holistic = [kind |-> "number", value |-> 60]
    /\ score_out.weighted_skills_contributing = << >>
    /\ score_out.score = 40

(***************************************************************************)
(* Claims about screen_resumes                                             *)
(***************************************************************************)

Finished == response \in {"ok", "http400", "http404", "http500"}

\* The request passes the checks made before the loop.
Admitted ==
    /\ request.job_found
    /\ Len(request.resumes) \in 1..MAX_RESUMES_PER_BATCH

IndexesOf(kinds) == {i \in 1..Len(request.resumes) : request.resumes[i] \in kinds}

\* C5: a request of N resumes of which k fail parsing and the others are
\* screened and stored returns exactly the N - k reports when k < N, and
\* fails with the 500 "Failed to process any resumes" when k = N.
C5_ParseFailuresSkipped ==
    (Finished /\ Admitted /\ IndexesOf({"ok", "parse_error"}) = 1..Len(request.resumes)) =>
        LET N == Len(request.resumes)
            k == Cardinality(IndexesOf({"parse_error"}))
        IN /\ k < N =>
                /\ response = "ok"
                /\ Len(candidate_reports) = N - k
                /\ {candidate_reports[j] : j \in 1..Len(candidate_reports)} = IndexesOf({"ok"})
                /\ screenings = IndexesOf({"ok"})
           /\ k = N => response = "http500" /\ candidate_reports = << >>

\* C5 witness: a request with a parse failure before a good resume, answered
\* with the one report.
C5_Witness ==
    /\ response = "ok"
    /\ Len(request.resumes) = 2
    /\ request.resumes[1] = "parse_error"
    /\ request.resumes[2] = "ok"
    /\ candidate_reports = <<2>>

\* C6: no failure of one resume stops the others: when the request is
\* answered every resume has been handled, every good resume has its report
\* stored, and the request succeeds when at least one resume succeeded. A bad
\* file type, data URI, base64 text or size raises an HTTPException that ends
\* the request at once, so this fails.
C6_FailureContained ==
    (Finished /\ Admitted) =>
        /\ idx = Len(request.resumes)
        /\ screenings = IndexesOf({"ok"})
        /\ IndexesOf({"ok"}) # {} => response = "ok"

\* The tracker status the orchestrator is to record for a resume.
TrackerStatusFor(kind) == IF kind = "ok" THEN "success" ELSE "failed"

\* C16: for every resume of the batch screen_resumes initializes the tracker
\* and records exactly one outcome for the resume in it: failed when parsing
\* failed, success once the report is stored. So when the request is answered
\* a tracker record exists and holds one entry, with that status, for every
\* resume handled that was stored or failed parsing. screen_resumes makes no
\* tracker call at all, so this fails.
C16_OutcomeRecordedPerResume ==
    (Finished /\ Admitted) =>
        \A i \in 1..idx :
            request.resumes[i] \in {"ok", "parse_error"} =>
                /\ tracker.exists
                /\ Cardinality(EntriesFor(tracker, i)) = 1
                /\ \A e \in EntriesFor(tracker, i) :
                      tracker.resume_statuses[e].status = TrackerStatusFor(request.resumes[i])
                /\ (i \in screenings) = (request.resumes[i] = "ok")

\* Nothing of the request has been handled: no iteration of the loop has
\* begun, so no blob is uploaded, no report built and no screening record
\* saved (the job's counter is touched only inside save_screening_result,
\* the user's counters by no step of screen_resumes), and the tracker record
\* is as it was.
NothingHandled ==
    /\ idx = 0
    /\ uploaded = {}
    /\ screenings = {}
    /\ candidate_reports = << >>
    /\ tracker = NoTracker

\* C30 as stated: screen_resumes for a job_id that is not in the calling
\* user's partition fails with a 404 before any resume is handled.
C30_UnknownJobIs404 ==
    (Finished /\ ~request.job_found) =>
        /\ response = "http404"
        /\ NothingHandled

\* C30 amended: screen_resumes for a job_id for which the lookup finds no
\* item in the calling user's partition fails before any resume is handled:
\* with a 404 when the request carries from 1 to MAX_RESUMES_PER_BATCH
\* resumes, and with the 400 of the size checks, which come before the
\* lookup, when it carries none or more than that.
C30_UnknownJobRefused ==
    (Finished /\ ~request.job_found) =>
        /\ response = IF Len(request.resumes) \in 1..MAX_RESUMES_PER_BATCH
                      THEN "http404" ELSE "http400"
        /\ NothingHandled

\* C30 witness: two good resumes sent for a job that is not found, answered
\* with the 404 and nothing uploaded or stored.
C30_Witness ==
    /\ ~request.job_found
    /\ request.resumes = <<"ok", "ok">>
    /\ response = "http404"
    /\ idx = 0
    /\ uploaded = {}
    /\ screenings = {}

====
